---- MODULE Spec2Model ----
(***************************************************************************)
(* Maternoscope: Reddit collection (PullPush cursor-forward, PRAW hot/new  *)
(* merge, PRAW top posts), the duplicate gate of the collector CLIs, the   *)
(* duplication-check CLI and the LLM annotation batch loop.                *)
(***************************************************************************)
EXTENDS Integers, Sequences, FiniteSets, TLC

(* ---------------------------- bounds ----------------------------------- *)
MaxSrc == 3          \* posts held by the PullPush source
PageSize == 2        \* stands for the request size 100 of pullpush_scraper.py:79
MaxListing == 2      \* items in one PRAW listing (hot, new, top)
NumIds == 2          \* distinct submission ids seen in PRAW listings
MaxCap == 2          \* largest --max-posts value tried
MaxRequests == 6     \* page requests of one PullPush run that are counted
CliMaxSrc == 1       \* posts held by the PullPush source in whole-CLI runs
NumPosts == 3        \* rows of the staging table read by the annotation CLI
MaxBatch == 2        \* largest --batch-size tried
MaxRuns == 2         \* annotation runs executed one after the other
MaxJobRuns == 2      \* runs of one collector job executed one after the other
TzOffset == 1        \* local-time offset applied by datetime.fromtimestamp

StartTs == 1         \* start_timestamp of the target day (scaled)
EndTs == 4           \* end_timestamp of the target day (scaled), exclusive
NoCursor == -1       \* Python None held by `after`

VARIABLES
    strategy,      \* which collector runs: "pullpush", "reddit", "top"
    source,        \* PullPush: all submissions of the subreddit, ascending created_utc
    apiInclusive,  \* PullPush: TRUE when the API's `after` bound is >=, FALSE when >
    apiHonorsSize, \* PullPush: FALSE when the API returns a full default page whatever `size`
    hot,           \* PRAW: subreddit.hot() listing
    new,           \* PRAW: subreddit.new() listing, newest first
    top,           \* PRAW: subreddit.top() listing
    flair_filter,  \* top posts: TRUE when --flair is given
    max_posts,     \* 0 stands for None
    posts_data,    \* the accumulating list of extracted records
    post_count,
    after,         \* PullPush pagination cursor
    pass,          \* PRAW hot/new: index into ['day', 'week']
    seen_post_ids, \* top posts: seen set
    requests,      \* number of source requests / listing walks issued
    req_failed,    \* TRUE once a request or listing walk of this run raised
    escaped,       \* TRUE once an exception left _extract_post_data
    failed_listings, \* the listings ("hot", "new") whose walk raised in this run
    request_log,   \* PullPush: the page requests and pacing delays of this run, in order
    pc,            \* position of the collector
    result,        \* the list returned to the caller
    \* ---- collector CLI (main) ----
    main_pc,           \* position of main()
    check_duplicates,  \* --check-duplicates
    save_to_snowflake, \* --save-to-snowflake
    output_csv,        \* TRUE when --output-csv names a path
    output_json,       \* TRUE when --output-json names a path
    files,             \* files in the output directory before the run
    sf_table_exists,   \* the warehouse table exists
    sf_rows,           \* rows of the warehouse table
    csv_exists,        \* result of the file probe
    snowflake_exists,  \* result of the warehouse probe
    probe_error,       \* how the warehouse probe of this run failed, "none" if it did not
    answer,            \* what the user typed at the prompt
    written,           \* files created by this run
    inserted,          \* warehouse rows inserted by this run
    contents,          \* what each file created by this run holds
    sink_log,          \* the sink operations of this run, in order
    job_run,           \* number of the current run of the job
    prev_result,       \* batch of the previous run of the job
    prev_inserted,     \* warehouse rows inserted by the previous run
    sf_rows0,          \* rows of the warehouse table before the first run
    \* ---- duplication-check CLI ----
    check_csv,         \* --check-csv
    check_snowflake,   \* --check-snowflake
    chk_pc,            \* position of check_existing_data.main()
    printed,           \* what the CLI printed on stdout
    exit_status,       \* process exit status
    \* ---- annotation CLI ----
    ann_pc,            \* position of annotate_reddit_posts.main()
    run,               \* number of annotation runs started so far
    needs_annotation,  \* post_ids of STG_REDDIT_POSTS_PII with needs_annotation = TRUE
    annotated,         \* rows of ANALYTICS_ML.REDDIT_POSTS_ANNOTATED
    limit,             \* --limit (0: no LIMIT clause)
    batch_size,        \* --batch-size
    posts_df,          \* post_ids fetched by this run
    idx,               \* index of the row the loop is at
    annotations,       \* the in-memory list of unflushed annotations
    calls,             \* Annotator calls of this run, per post
    outcomes,          \* per processed row of this run: TRUE when annotate_post returned a dict
    flushes,           \* the batches this run wrote with save_annotations
    flushed_before,    \* posts whose annotation was in the table when this run started
    prior_selected,    \* posts the previous run had fetched
    dry_run,           \* --dry-run
    save_csv,          \* --save-csv
    ann_table_exists,  \* ANALYTICS_ML.REDDIT_POSTS_ANNOTATED exists
    csv_files,         \* contents of the CSV files this run wrote
    ann_conn,          \* the annotator's warehouse connection
    model_name,        \* self.model_name: OPENAI_MODEL of the process environment
    reply_fields,      \* TRUE when the model's replies vary in their schema and provenance fields
    replies            \* per processed row of this run: what the model replied

collectVars == <<strategy, source, apiInclusive, apiHonorsSize, hot, new, top,
                 flair_filter, max_posts, posts_data, post_count, after, pass,
                 seen_post_ids, requests, req_failed, escaped, failed_listings,
                 request_log, pc, result>>

mainVars == <<main_pc, check_duplicates, save_to_snowflake, output_csv, output_json,
              files, sf_table_exists, sf_rows, csv_exists, snowflake_exists,
              answer, written, inserted, contents, sink_log, job_run,
              prev_result, prev_inserted, sf_rows0, probe_error>>

chkVars == <<check_csv, check_snowflake, chk_pc, printed, exit_status>>

annVars == <<ann_pc, run, needs_annotation, annotated, limit, batch_size, posts_df,
             idx, annotations, calls, outcomes, flushes, flushed_before,
             prior_selected, dry_run, save_csv, ann_table_exists, csv_files,
             ann_conn, model_name, reply_fields, replies>>

vars == <<collectVars, mainVars, chkVars, annVars>>

(* ---------------------------- helpers ---------------------------------- *)
Min(a, b) == IF a < b THEN a ELSE b

Take(s, n) == SubSeq(s, 1, Min(n, Len(s)))

RECURSIVE SeqSet(_)
SeqSet(s) == IF s = <<>> THEN {} ELSE {Head(s)} \cup SeqSet(Tail(s))

Ids(s) == {s[i].post_id : i \in 1..Len(s)}

NoDupIds(s) == \A i, j \in 1..Len(s) : i # j => s[i].post_id # s[j].post_id

\* datetime.fromtimestamp(created_utc): naive local time
FromTimestamp(ts) == ts + TzOffset

\* _extract_post_data: the fields of the record the collection logic reads
ExtractPostData(item) ==
    [post_id |-> item.id,
     post_date |-> FromTimestamp(item.created_utc),
     post_timestamp |-> item.created_utc]

\* Python None returned by an extractor
NoRecord == [post_id |-> 0, post_date |-> 0, post_timestamp |-> 0]

\* PullPushScraper._extract_post_data: post['id'] raises KeyError for an item
\* without identifier, the handler reads post.get('id', 'unknown') and
\* returns None (pullpush_scraper.py:163-194)
PPExtractPostData(post) ==
    IF post.has_id THEN ExtractPostData(post) ELSE NoRecord

\* RedditScraper._extract_post_data: submission.id raises AttributeError for
\* an item without identifier, and the handler's message reads submission.id
\* again, so the exception leaves the extractor (reddit_scraper.py:189-194)
RSExtractRaises(submission) == ~submission.has_id

RECURSIVE ExtractAll(_)
ExtractAll(items) ==
    IF items = <<>> THEN <<>>
    ELSE <<ExtractPostData(Head(items))>> \o ExtractAll(Tail(items))

\* list.sort(key=lambda x: x['post_date']): stable, ascending
RECURSIVE InsertByDate(_, _)
InsertByDate(sorted, r) ==
    IF sorted = <<>> THEN <<r>>
    ELSE IF Head(sorted).post_date <= r.post_date
         THEN <<Head(sorted)>> \o InsertByDate(Tail(sorted), r)
         ELSE <<r>> \o sorted

\* a sort that is skipped
SortByDate_Skipped(s) == s

RECURSIVE SortByDate(_)
SortByDate(s) ==
    IF s = <<>> THEN <<>>
    ELSE InsertByDate(SortByDate(SubSeq(s, 1, Len(s) - 1)), s[Len(s)])

SortedByDate(s) == \A i \in 1..Len(s) - 1 : s[i].post_date <= s[i + 1].post_date

(* ---------------------- PullPush cursor-forward ------------------------ *)
\* The PullPush search endpoint: submissions with after < created_utc < before
\* (after <= created_utc when the bound is inclusive), ascending, at most
\* `size` of them.
RECURSIVE Matching(_, _, _)
Matching(src, aft, before) ==
    IF src = <<>> THEN <<>>
    ELSE LET h == Head(src)
             ok == /\ h.created_utc < before
                   /\ IF apiInclusive THEN h.created_utc >= aft
                                      ELSE h.created_utc > aft
         IN (IF ok THEN <<h>> ELSE <<>>) \o Matching(Tail(src), aft, before)

ApiPage(aft, before, size) ==
    Take(Matching(source, aft, before), IF apiHonorsSize THEN size ELSE PageSize)

\* params['size'] (pullpush_scraper.py:79)
RequestSize == IF max_posts # 0 THEN Min(PageSize, max_posts - post_count)
               ELSE PageSize

\* params['after'] (pullpush_scraper.py:77, 84-85): `if after:` is false for
\* None and for 0
RequestAfter == IF after # NoCursor /\ after # 0 THEN after ELSE StartTs

\* the page loop without its max_posts test
RECURSIVE AppendPage_NoCap(_, _)
AppendPage_NoCap(data, posts) ==
    IF posts = <<>> THEN data
    ELSE LET post_data == PPExtractPostData(Head(posts))
         IN AppendPage_NoCap(IF post_data # NoRecord THEN Append(data, post_data)
                             ELSE data, Tail(posts))

\* for post in posts: ... (pullpush_scraper.py:102-109)
RECURSIVE AppendPage(_, _)
AppendPage(data, posts) ==
    IF posts = <<>> THEN data
    ELSE IF max_posts # 0 /\ Len(data) >= max_posts THEN data
    ELSE LET post_data == PPExtractPostData(Head(posts))
         IN AppendPage(IF post_data # NoRecord THEN Append(data, post_data) ELSE data,
                       Tail(posts))

\* entries of the request log
Request(aft, size) == [ev |-> "get", after |-> aft, size |-> size]

Sleep == [ev |-> "sleep", after |-> NoCursor, size |-> 0]

\* an iteration that goes on without a delay
PaceAfterPage_None(continues) == <<>>

\* time.sleep(1) is the last statement of an iteration that did not break
\* (pullpush_scraper.py:122-123)
PaceAfterPage(continues) == IF continues THEN <<Sleep>> ELSE <<>>

\* a loop that goes on after a short page too
MorePages_Always(posts, size) == TRUE

\* `if len(posts) < params['size']: break` (pullpush_scraper.py:115-117)
MorePages(posts, size) == ~(Len(posts) < size)

\* after = posts[-1]['created_utc'] (pullpush_scraper.py:120)
NextCursor(posts) == posts[Len(posts)].created_utc

\* one iteration of `while True` whose request succeeds
PPPage ==
    /\ strategy = "pullpush" /\ pc = "loop"
    /\ requests < MaxRequests
    /\ LET size == RequestSize
           posts == ApiPage(RequestAfter, EndTs, size)
       IN /\ requests' = requests + 1
          /\ IF posts = <<>>
             THEN /\ pc' = "sort"
                  /\ UNCHANGED <<posts_data, post_count, after>>
             ELSE /\ posts_data' = AppendPage(posts_data, posts)
                  /\ post_count' = post_count + (Len(posts_data') - Len(posts_data))
                  /\ IF MorePages(posts, size)
                     THEN pc' = "loop" /\ after' = NextCursor(posts)
                     ELSE pc' = "sort" /\ UNCHANGED after
          /\ request_log' = Append(request_log, Request(RequestAfter, size))
                               \o PaceAfterPage(pc' = "loop")
    /\ UNCHANGED <<strategy, source, apiInclusive, apiHonorsSize, hot, new, top,
                   flair_filter, max_posts, pass, seen_post_ids, req_failed,
                   result>>
    /\ UNCHANGED <<escaped, failed_listings>>
    /\ UNCHANGED <<mainVars, chkVars, annVars>>

\* what a failing iteration leaves in posts_data: nothing new when the
\* request itself raises RequestException; when the page is full but its
\* last post has no created_utc, the records of the posts before it (the
\* extractor returns None for the last one, then posts[-1]['created_utc']
\* raises KeyError)
FailedPage(kind) ==
    IF kind = "request" THEN posts_data
    ELSE LET posts == ApiPage(RequestAfter, EndTs, RequestSize)
         IN AppendPage(posts_data, SubSeq(posts, 1, Len(posts) - 1))

\* a failure handled like the outer `except Exception: return []`
PPPageFail_DropsRecords ==
    /\ strategy = "pullpush" /\ pc = "loop"
    /\ requests < MaxRequests
    /\ requests' = requests + 1
    /\ req_failed' = TRUE
    /\ pc' = "sort"
    /\ posts_data' = <<>> /\ post_count' = 0
    /\ request_log' = Append(request_log, Request(RequestAfter, RequestSize))
    /\ UNCHANGED <<strategy, source, apiInclusive, apiHonorsSize, hot, new, top,
                   flair_filter, max_posts, after, pass,
                   seen_post_ids, result>>
    /\ UNCHANGED <<escaped, failed_listings>>
    /\ UNCHANGED <<mainVars, chkVars, annVars>>

\* an iteration that ends in `except requests.exceptions.RequestException`
\* or `except KeyError`: logged, break (pullpush_scraper.py:89-130)
PPPageFail ==
    /\ strategy = "pullpush" /\ pc = "loop"
    /\ requests < MaxRequests
    /\ requests' = requests + 1
    /\ req_failed' = TRUE
    /\ pc' = "sort"
    /\ \E kind \in {"request", "format"} :
         /\ kind = "format" =>
              LET posts == ApiPage(RequestAfter, EndTs, RequestSize)
              IN posts # <<>> /\ Len(posts) >= RequestSize
         /\ posts_data' = FailedPage(kind)
         /\ post_count' = post_count + (Len(posts_data') - Len(posts_data))
    /\ request_log' = Append(request_log, Request(RequestAfter, RequestSize))
    /\ UNCHANGED <<strategy, source, apiInclusive, apiHonorsSize, hot, new, top,
                   flair_filter, max_posts, after, pass,
                   seen_post_ids, result>>
    /\ UNCHANGED <<escaped, failed_listings>>
    /\ UNCHANGED <<mainVars, chkVars, annVars>>

\* posts_data.sort(...); return posts_data (pullpush_scraper.py:133-148)
PPReturn ==
    /\ strategy = "pullpush" /\ pc = "sort"
    /\ result' = SortByDate(posts_data)
    /\ pc' = "done"
    /\ UNCHANGED <<strategy, source, apiInclusive, apiHonorsSize, hot, new, top,
                   flair_filter, max_posts, posts_data, post_count, after, pass,
                   seen_post_ids, requests, req_failed>>
    /\ UNCHANGED <<escaped, failed_listings, request_log>>
    /\ UNCHANGED <<mainVars, chkVars, annVars>>

(* ---------------------- PRAW hot/new listing merge --------------------- *)
\* start_of_day and end_of_day are naive local datetimes
LocalStart == FromTimestamp(StartTs)
LocalEnd == FromTimestamp(EndTs)

InWindow(item) ==
    /\ LocalStart <= FromTimestamp(item.created_utc)
    /\ FromTimestamp(item.created_utc) < LocalEnd

CapReached(data) == max_posts # 0 /\ Len(data) >= max_posts

\* for submission in subreddit.hot(limit=None): ... (reddit_scraper.py:79-100)
\* Returns the list after the walk, whether the walk consumed every item and
\* whether an exception of the extractor ended it.
RECURSIVE WalkHot(_, _)
WalkHot(data, items) ==
    IF items = <<>> THEN [data |-> data, exhausted |-> TRUE, raised |-> FALSE]
    ELSE IF CapReached(data) THEN [data |-> data, exhausted |-> FALSE, raised |-> FALSE]
    ELSE IF InWindow(Head(items))
         THEN IF RSExtractRaises(Head(items))
              THEN [data |-> data, exhausted |-> FALSE, raised |-> TRUE]
              ELSE WalkHot(Append(data, ExtractPostData(Head(items))), Tail(items))
    ELSE IF FromTimestamp(Head(items).created_utc) < LocalStart
         THEN [data |-> data, exhausted |-> FALSE, raised |-> FALSE]
    ELSE WalkHot(data, Tail(items))

\* for submission in subreddit.new(limit=None): ... (reddit_scraper.py:103-128)
\* For an item without identifier either the duplicate test (submission.id,
\* evaluated when posts_data is not empty) or the extractor raises.
RECURSIVE WalkNew(_, _)
WalkNew(data, items) ==
    IF items = <<>> THEN [data |-> data, exhausted |-> TRUE, raised |-> FALSE]
    ELSE IF CapReached(data) THEN [data |-> data, exhausted |-> FALSE, raised |-> FALSE]
    ELSE IF InWindow(Head(items))
         THEN IF RSExtractRaises(Head(items))
              THEN [data |-> data, exhausted |-> FALSE, raised |-> TRUE]
              ELSE IF Head(items).id \notin Ids(data)
              THEN WalkNew(Append(data, ExtractPostData(Head(items))), Tail(items))
              ELSE WalkNew(data, Tail(items))
    ELSE IF FromTimestamp(Head(items).created_utc) < LocalStart
         THEN [data |-> data, exhausted |-> FALSE, raised |-> FALSE]
    ELSE WalkNew(data, Tail(items))

\* head of `for time_filter in ['day', 'week']` (reddit_scraper.py:71-73)
PassHead(p, data) ==
    IF p > 2 \/ CapReached(data) THEN "sort" ELSE "hot"

NoError == -1

\* the hot walk of one pass; the listing may raise after delivering k items
RSHot ==
    /\ strategy = "reddit" /\ pc = "hot"
    /\ \E k \in {NoError} \cup (0..Len(hot)) :
         LET delivered == IF k = NoError THEN hot ELSE Take(hot, k)
             w == WalkHot(posts_data, delivered)
             raised == k # NoError /\ w.exhausted
         IN /\ posts_data' = w.data
            /\ post_count' = post_count + (Len(w.data) - Len(posts_data))
            /\ req_failed' = (req_failed \/ raised)
            /\ escaped' = (escaped \/ w.raised)
            /\ failed_listings' = failed_listings \cup (IF raised THEN {"hot"} ELSE {})
            /\ IF raised \/ w.raised
               THEN pass' = pass + 1 /\ pc' = PassHead(pass + 1, w.data)
               ELSE pass' = pass /\ pc' = "new"
    /\ requests' = requests + 1
    /\ UNCHANGED <<strategy, source, apiInclusive, apiHonorsSize, hot, new, top,
                   flair_filter, max_posts, after, seen_post_ids, result,
                   request_log>>
    /\ UNCHANGED <<mainVars, chkVars, annVars>>

\* the new walk of the same pass, then time.sleep(1) and the next pass
RSNew ==
    /\ strategy = "reddit" /\ pc = "new"
    /\ \E k \in {NoError} \cup (0..Len(new)) :
         LET delivered == IF k = NoError THEN new ELSE Take(new, k)
             w == WalkNew(posts_data, delivered)
             raised == k # NoError /\ w.exhausted
         IN /\ posts_data' = w.data
            /\ post_count' = post_count + (Len(w.data) - Len(posts_data))
            /\ req_failed' = (req_failed \/ raised)
            /\ escaped' = (escaped \/ w.raised)
            /\ failed_listings' = failed_listings \cup (IF raised THEN {"new"} ELSE {})
            /\ pass' = pass + 1
            /\ pc' = PassHead(pass + 1, w.data)
    /\ requests' = requests + 1
    /\ UNCHANGED <<strategy, source, apiInclusive, apiHonorsSize, hot, new, top,
                   flair_filter, max_posts, after, seen_post_ids, result,
                   request_log>>
    /\ UNCHANGED <<mainVars, chkVars, annVars>>

\* posts_data.sort(...); return posts_data (reddit_scraper.py:141-147)
RSReturn ==
    /\ strategy = "reddit" /\ pc = "sort"
    /\ result' = SortByDate(posts_data)
    /\ pc' = "done"
    /\ UNCHANGED <<strategy, source, apiInclusive, apiHonorsSize, hot, new, top,
                   flair_filter, max_posts, posts_data, post_count, after, pass,
                   seen_post_ids, requests, req_failed>>
    /\ UNCHANGED <<escaped, failed_listings, request_log>>
    /\ UNCHANGED <<mainVars, chkVars, annVars>>

(* --------------------------- PRAW top posts ---------------------------- *)
\* for submission in submissions: ... (praw_scraper.py:67-89)
RECURSIVE WalkTop(_, _, _)
WalkTop(data, seen, items) ==
    IF items = <<>>
    THEN [data |-> data, seen |-> seen, exhausted |-> TRUE, raised |-> FALSE]
    ELSE IF CapReached(data)
    THEN [data |-> data, seen |-> seen, exhausted |-> FALSE, raised |-> FALSE]
    ELSE IF ~Head(items).has_id \* `submission.id in seen_post_ids` raises
    THEN [data |-> data, seen |-> seen, exhausted |-> FALSE, raised |-> TRUE]
    ELSE IF Head(items).id \in seen THEN WalkTop(data, seen, Tail(items))
    ELSE IF flair_filter /\ ~Head(items).flair_match THEN WalkTop(data, seen, Tail(items))
    ELSE WalkTop(Append(data, ExtractPostData(Head(items))),
                 seen \cup {Head(items).id}, Tail(items))

\* get_top_posts as a whole: the walk, then `return posts_data`, or
\* `return []` when the listing raises (praw_scraper.py:93-97)
TPGetTopPosts ==
    /\ strategy = "top" /\ pc = "top"
    /\ \E k \in {NoError} \cup (0..Len(top)) :
         LET delivered == IF k = NoError THEN top ELSE Take(top, k)
             w == WalkTop(posts_data, seen_post_ids, delivered)
             raised == (k # NoError /\ w.exhausted) \/ w.raised
         IN /\ posts_data' = w.data
            /\ seen_post_ids' = w.seen
            /\ post_count' = post_count + (Len(w.data) - Len(posts_data))
            /\ req_failed' = raised
            /\ result' = IF raised THEN <<>> ELSE w.data
    /\ requests' = requests + 1
    /\ pc' = "done"
    /\ UNCHANGED <<strategy, source, apiInclusive, apiHonorsSize, hot, new, top,
                   flair_filter, max_posts, after, pass>>
    /\ UNCHANGED <<escaped, failed_listings, request_log>>
    /\ UNCHANGED <<mainVars, chkVars, annVars>>

(* ------------------------------ sources -------------------------------- *)
\* a raw item; has_id is FALSE for an item whose identifier field is missing
\* (id then only names the item, no code reads it)
Item(i, t, ok) == [id |-> i, created_utc |-> t, has_id |-> ok]

\* which item may lack its identifier: none (0), or one of them
MissingId(ids, malformed) == IF malformed THEN {0} \cup ids ELSE {0}

\* what the PullPush index can hold: ids are unique, order is ascending
\* created_utc with the index's own order among equal timestamps
PPSources(n, malformed) ==
    UNION {{[i \in 1..m |-> Item(i, f[i], i # bad)] :
              f \in {g \in [1..m -> (StartTs - 1)..EndTs] :
                       \A i \in 1..m - 1 : g[i] <= g[i + 1]},
              bad \in MissingId(1..m, malformed)} : m \in 0..n}

\* creation times a listed submission can have: before the day, two instants
\* inside it, after it
ListingTs == {StartTs - 1, StartTs, StartTs + 1, EndTs}

SeqsUpTo(S, n) == UNION {[1..m -> S] : m \in 0..n}

Listings(tsOf, bad, ids, n) ==
    {[i \in 1..Len(q) |-> Item(q[i], tsOf[q[i]], q[i] # bad)] : q \in SeqsUpTo(ids, n)}

\* subreddit.hot() lists a submission once, in ranking order
HotListings(tsOf, bad, ids, n) ==
    {l \in Listings(tsOf, bad, ids, n) : \A i, j \in 1..Len(l) : i # j => l[i].id # l[j].id}

\* subreddit.new() lists a submission once, newest first
NewListings(tsOf, bad, ids, n) ==
    {l \in HotListings(tsOf, bad, ids, n) :
        \A i \in 1..Len(l) - 1 : l[i].created_utc >= l[i + 1].created_utc}

\* subreddit.top(): ranking order; a submission can come back on a later page
TopListings(tsOf, bad, ids, n) ==
    {[i \in 1..Len(q) |-> [id |-> q[i], created_utc |-> tsOf[q[i]],
                            has_id |-> q[i] # bad, flair_match |-> fm[q[i]]]] :
        q \in SeqsUpTo(ids, n), fm \in [ids -> BOOLEAN]}

\* the subreddit as the three collectors see it
SourceChoice(nSrc, ids, nList, caps, bounds, malformed) ==
    \/ /\ strategy = "pullpush"
       /\ source \in PPSources(nSrc, malformed)
       /\ apiInclusive \in bounds
       /\ max_posts \in caps
       /\ apiHonorsSize \in (IF max_posts = 0 THEN {TRUE} ELSE BOOLEAN)
       /\ hot = <<>> /\ new = <<>> /\ top = <<>> /\ flair_filter = FALSE
    \/ /\ strategy = "reddit"
       /\ \E tsOf \in [ids -> ListingTs], bad \in MissingId(ids, malformed) :
            /\ hot \in HotListings(tsOf, bad, ids, nList)
            /\ new \in NewListings(tsOf, bad, ids, nList)
       /\ max_posts \in caps
       /\ source = <<>> /\ apiInclusive = FALSE /\ apiHonorsSize = TRUE
       /\ top = <<>> /\ flair_filter = FALSE
    \/ /\ strategy = "top"
       /\ \E tsOf \in [ids -> ListingTs], bad \in MissingId(ids, malformed) :
            top \in TopListings(tsOf, bad, ids, nList)
       /\ flair_filter \in BOOLEAN
       /\ max_posts \in caps
       /\ source = <<>> /\ apiInclusive = FALSE /\ apiHonorsSize = TRUE
       /\ hot = <<>> /\ new = <<>>

\* locals of the collection functions before their loops
LocalsInit ==
    /\ posts_data = <<>> /\ post_count = 0 /\ after = NoCursor
    /\ pass = 1 /\ seen_post_ids = {}
    /\ requests = 0 /\ req_failed = FALSE /\ escaped = FALSE /\ result = <<>>
    /\ failed_listings = {} /\ request_log = <<>>

\* the first statement of the collection function of a strategy
CollectorStart(st) ==
    IF st = "pullpush" THEN "loop" ELSE IF st = "reddit" THEN "hot" ELSE "top"

(* ------------------- output directory and warehouse -------------------- *)
Unit == "u1"       \* args.subreddit
Window == "w1"     \* args.date, or args.time_filter for top posts
OtherWindow == "w2"

File(prefix, unit, window, ext) ==
    [prefix |-> prefix, unit |-> unit, window |-> window, ext |-> ext]

\* file name prefix of a collector's probe pattern
Prefix(st) ==
    IF st = "pullpush" THEN "pullpush_posts"
    ELSE IF st = "reddit" THEN "reddit_posts" ELSE "top_posts"

\* check_existing_csv: glob("{prefix}_{subreddit}_{date}_*.csv") is non-empty
CheckExistingCsv(st, fs) ==
    \E f \in fs : /\ f.prefix = Prefix(st) /\ f.unit = Unit
                  /\ f.window = Window /\ f.ext = "csv"

Row(unit, window, id) == [unit |-> unit, window |-> window, post_id |-> id]

\* SnowflakeConnector.check_existing_data: any error gives False
CheckExistingData(queryOk) ==
    /\ queryOk
    /\ sf_table_exists
    /\ \E i \in 1..Len(sf_rows) : sf_rows[i].unit = Unit /\ sf_rows[i].window = Window

\* a probe that takes a failure for existing data
WarehouseProbe_FailsClosed(connOk, queryOk) ==
    ~connOk \/ ~queryOk \/ CheckExistingData(queryOk)

\* the probe as main() and check_snowflake_data call it: connect, query,
\* close; an exception of SnowflakeConnector() leaves the result False
\* (reddit_scraper.py:473-482, check_existing_data.py:23-32)
WarehouseProbe(connOk, queryOk) == connOk /\ CheckExistingData(queryOk)

\* what went wrong in the probe: the connection, a query, or the table is
\* not there
ProbeError(connOk, queryOk) ==
    IF ~connOk THEN "connect" ELSE IF ~queryOk THEN "query"
    ELSE IF ~sf_table_exists THEN "no_table" ELSE "none"

WarehouseStates ==
    {[exists |-> FALSE, rows |-> <<>>],
     [exists |-> TRUE, rows |-> <<>>],
     [exists |-> TRUE, rows |-> <<Row(Unit, Window, 1)>>],
     [exists |-> TRUE, rows |-> <<Row(Unit, OtherWindow, 1)>>]}

(* ----------------------------- the prompt ------------------------------ *)
Answers ==
    {<<>>, <<" ">>, <<"y">>, <<"Y">>, <<"n">>, <<"y", "e", "s">>, <<"Y", "E", "S">>,
     <<" ", "y", " ">>, <<"y", "e">>, <<"n", "o">>}

\* str.lower()
LowerChar(c) ==
    IF c = "Y" THEN "y" ELSE IF c = "E" THEN "e" ELSE IF c = "S" THEN "s"
    ELSE IF c = "N" THEN "n" ELSE IF c = "O" THEN "o" ELSE c

Lower(str) == [i \in 1..Len(str) |-> LowerChar(str[i])]

\* str.strip()
RECURSIVE StripLeft(_)
StripLeft(str) ==
    IF str # <<>> /\ Head(str) = " " THEN StripLeft(Tail(str)) ELSE str

RECURSIVE StripRight(_)
StripRight(str) ==
    IF str # <<>> /\ str[Len(str)] = " "
    THEN StripRight(SubSeq(str, 1, Len(str) - 1)) ELSE str

Strip(str) == StripRight(StripLeft(str))

Yes == {<<"y">>, <<"y", "e", "s">>}

\* a gate whose default is to proceed
GateCancels_DefaultYes(str) == Lower(Strip(str)) \in {<<"n">>, <<"n", "o">>}

\* response = input(...).strip().lower(); `if response not in ['y', 'yes']`
\* (reddit_scraper.py:492-493)
GateCancels(str) == Lower(Strip(str)) \notin Yes

(* --------------------------- collector main() -------------------------- *)
\* argument parsing up to the duplicate check (reddit_scraper.py:450-483,
\* pullpush_scraper.py:450-483, praw_scraper.py:332-357)
MainBegin ==
    /\ main_pc = "start"
    /\ IF ~check_duplicates
       THEN /\ main_pc' = "get_posts" /\ pc' = CollectorStart(strategy)
            /\ UNCHANGED <<csv_exists, snowflake_exists, probe_error>>
       ELSE \E connOk, queryOk \in BOOLEAN :
              /\ csv_exists' = CheckExistingCsv(strategy, files)
              /\ snowflake_exists' = (save_to_snowflake /\ WarehouseProbe(connOk, queryOk))
              /\ probe_error' = IF save_to_snowflake THEN ProbeError(connOk, queryOk)
                                ELSE "none"
              /\ IF csv_exists' \/ snowflake_exists'
                 THEN main_pc' = "prompt" /\ pc' = pc
                 ELSE main_pc' = "get_posts" /\ pc' = CollectorStart(strategy)
    /\ UNCHANGED <<strategy, source, apiInclusive, apiHonorsSize, hot, new, top,
                   flair_filter, max_posts, posts_data, post_count, after, pass,
                   seen_post_ids, requests, req_failed, escaped, failed_listings,
                   request_log, result>>
    /\ UNCHANGED <<check_duplicates, save_to_snowflake, output_csv, output_json,
                   files, sf_table_exists, sf_rows, answer, written, inserted,
                   contents, sink_log, job_run, prev_result, prev_inserted,
                   sf_rows0>>
    /\ UNCHANGED <<chkVars, annVars>>

\* the y/N prompt (reddit_scraper.py:485-497)
MainPrompt ==
    /\ main_pc = "prompt"
    /\ \E a \in Answers :
         /\ answer' = a
         /\ IF GateCancels(a)
            THEN main_pc' = "cancelled" /\ pc' = pc
            ELSE main_pc' = "get_posts" /\ pc' = CollectorStart(strategy)
    /\ UNCHANGED <<strategy, source, apiInclusive, apiHonorsSize, hot, new, top,
                   flair_filter, max_posts, posts_data, post_count, after, pass,
                   seen_post_ids, requests, req_failed, escaped, failed_listings,
                   request_log, result>>
    /\ UNCHANGED <<check_duplicates, save_to_snowflake, output_csv, output_json,
                   files, sf_table_exists, sf_rows, csv_exists, snowflake_exists,
                   written, inserted, contents, sink_log, job_run, prev_result,
                   prev_inserted, sf_rows0, probe_error>>
    /\ UNCHANGED <<chkVars, annVars>>

\* the paths main() writes: the explicit ones, or for the live-API and the
\* top-posts collector the timestamped defaults when none is given
\* (reddit_scraper.py:507-515, praw_scraper.py:384-393); the PullPush
\* collector has no defaults (pullpush_scraper.py:506-511)
CsvTarget ==
    IF output_csv THEN {File("explicit", Unit, Window, "csv")}
    ELSE IF strategy # "pullpush" /\ ~output_json
         THEN {File(Prefix(strategy), Unit, Window, "csv")}
         ELSE {}

JsonTarget ==
    IF output_json THEN {File("explicit", Unit, Window, "json")}
    ELSE IF strategy # "pullpush" /\ ~output_csv
         THEN {File(Prefix(strategy), Unit, Window, "json")}
         ELSE {}

RECURSIVE RowsOf(_)
RowsOf(recs) ==
    IF recs = <<>> THEN <<>>
    ELSE <<Row(Unit, Window, Head(recs).post_id)>> \o RowsOf(Tail(recs))

\* one entry of the run's sink log
Event(sink, ok) == [sink |-> sink, ok |-> ok]

\* scraper.save_to_csv / save_to_json when the path is set
\* (reddit_scraper.py:517-522)
FileEvents(sink, target, ok) == IF target = {} THEN <<>> ELSE <<Event(sink, ok)>>

\* SnowflakeConnector(), save_to_snowflake (create_table_if_not_exists, then
\* write_pandas), `finally: if snowflake_connector: close()`
\* (reddit_scraper.py:319-370, 524-534)
WarehouseEvents(connOk, createOk, insertOk) ==
    IF ~connOk THEN <<Event("connect", FALSE)>>
    ELSE IF ~createOk
    THEN <<Event("connect", TRUE), Event("create", FALSE), Event("close", TRUE)>>
    ELSE <<Event("connect", TRUE), Event("create", TRUE), Event("insert", insertOk),
           Event("close", TRUE)>>

\* a warehouse failure that is raised again
AfterWarehouse_Reraise(ok) == IF ok THEN "exit" ELSE "raised"

\* `except Exception as e: logger.error(f"Failed to save to Snowflake: {e}")`
\* (reddit_scraper.py:530-531): main() goes on to its summary either way
AfterWarehouse(ok) == "exit"

\* everything after get_posts returned: `if not posts: return`, the file
\* sinks, the warehouse sink (reddit_scraper.py:503-546)
MainSave ==
    /\ main_pc = "get_posts" /\ pc = "done"
    /\ IF result = <<>>
       THEN /\ main_pc' = "exit"
            /\ UNCHANGED <<written, inserted, sf_table_exists, sf_rows, contents,
                           sink_log>>
       ELSE \E csvOk, jsonOk, connOk, createOk, insertOk \in BOOLEAN :
              /\ written' = written \cup (IF csvOk THEN CsvTarget ELSE {})
                                    \cup (IF jsonOk THEN JsonTarget ELSE {})
              /\ contents' = [f \in written' |-> result]
              /\ sink_log' = FileEvents("csv", CsvTarget, csvOk)
                               \o FileEvents("json", JsonTarget, jsonOk)
                               \o (IF save_to_snowflake
                                   THEN WarehouseEvents(connOk, createOk, insertOk)
                                   ELSE <<>>)
              /\ IF save_to_snowflake /\ connOk /\ createOk
                 THEN /\ sf_table_exists' = TRUE
                      /\ IF insertOk
                         THEN /\ sf_rows' = sf_rows \o RowsOf(result)
                              /\ inserted' = inserted + Len(result)
                         ELSE UNCHANGED <<sf_rows, inserted>>
                 ELSE UNCHANGED <<sf_table_exists, sf_rows, inserted>>
              /\ main_pc' = IF save_to_snowflake
                            THEN AfterWarehouse(connOk /\ createOk /\ insertOk)
                            ELSE "exit"
    /\ UNCHANGED <<collectVars>>
    /\ UNCHANGED <<check_duplicates, save_to_snowflake, output_csv, output_json,
                   files, csv_exists, snowflake_exists, answer, job_run,
                   prev_result, prev_inserted, sf_rows0, probe_error>>
    /\ UNCHANGED <<chkVars, annVars>>

\* the process has ended and the same job is started again: the output
\* directory and the warehouse keep what the run left
MainAgain ==
    /\ main_pc \in {"exit", "cancelled"}
    /\ job_run < MaxJobRuns
    /\ job_run' = job_run + 1
    /\ main_pc' = "start" /\ pc' = "idle"
    /\ files' = files \cup written
    /\ prev_result' = result /\ prev_inserted' = inserted
    /\ posts_data' = <<>> /\ post_count' = 0 /\ after' = NoCursor
    /\ pass' = 1 /\ seen_post_ids' = {}
    /\ requests' = 0 /\ req_failed' = FALSE /\ escaped' = FALSE /\ result' = <<>>
    /\ failed_listings' = {} /\ request_log' = <<>>
    /\ csv_exists' = FALSE /\ snowflake_exists' = FALSE /\ probe_error' = "none"
    /\ answer' = <<>> /\ written' = {} /\ inserted' = 0
    /\ contents' = <<>> /\ sink_log' = <<>>
    /\ UNCHANGED <<strategy, source, apiInclusive, apiHonorsSize, hot, new, top,
                   flair_filter, max_posts>>
    /\ UNCHANGED <<check_duplicates, save_to_snowflake, output_csv, output_json,
                   sf_table_exists, sf_rows, sf_rows0>>
    /\ UNCHANGED <<chkVars, annVars>>

(* ------------------------ duplication-check CLI ------------------------ *)
\* check_csv_data under --check-csv (check_existing_data.py:48-52); the
\* probe is RedditScraper.check_existing_csv
ChkCsv ==
    /\ chk_pc = "csv"
    /\ csv_exists' = (check_csv /\ CheckExistingCsv("reddit", files))
    /\ chk_pc' = "snowflake"
    /\ UNCHANGED <<collectVars, annVars>>
    /\ UNCHANGED <<main_pc, check_duplicates, save_to_snowflake, output_csv,
                   output_json, files, sf_table_exists, sf_rows, snowflake_exists,
                   answer, written, inserted, contents, sink_log, job_run,
                   prev_result, prev_inserted, sf_rows0, probe_error>>
    /\ UNCHANGED <<check_csv, check_snowflake, printed, exit_status>>

\* check_snowflake_data under --check-snowflake (check_existing_data.py:23-32, 54-55)
ChkSnowflake ==
    /\ chk_pc = "snowflake"
    /\ \E connOk, queryOk \in BOOLEAN :
         /\ snowflake_exists' = (check_snowflake /\ WarehouseProbe(connOk, queryOk))
         /\ probe_error' = IF check_snowflake THEN ProbeError(connOk, queryOk)
                           ELSE "none"
    /\ chk_pc' = "report"
    /\ UNCHANGED <<collectVars, annVars>>
    /\ UNCHANGED <<main_pc, check_duplicates, save_to_snowflake, output_csv,
                   output_json, files, sf_table_exists, sf_rows, csv_exists,
                   answer, written, inserted, contents, sink_log, job_run,
                   prev_result, prev_inserted, sf_rows0>>
    /\ UNCHANGED <<check_csv, check_snowflake, printed, exit_status>>

\* exit codes the wrong way round
ReportStatus_Inverted(found) == IF found THEN 1 ELSE 0

\* sys.exit(0) after EXISTS, sys.exit(1) after NOT_EXISTS
\* (check_existing_data.py:58-63)
ReportStatus(found) == IF found THEN 0 ELSE 1

\* print and sys.exit (check_existing_data.py:58-63)
ChkReport ==
    /\ chk_pc = "report"
    /\ printed' = IF csv_exists \/ snowflake_exists THEN "EXISTS" ELSE "NOT_EXISTS"
    /\ exit_status' = ReportStatus(csv_exists \/ snowflake_exists)
    /\ chk_pc' = "exited"
    /\ UNCHANGED <<collectVars, annVars>>
    /\ UNCHANGED <<mainVars>>
    /\ UNCHANGED <<check_csv, check_snowflake>>

(* ---------------------------- annotation CLI -------------------------- *)
PostIds == 1..NumPosts

Srcs(rows) == {rows[i].src : i \in 1..Len(rows)}

\* the anti-join of fetch_posts_to_annotate (annotate_reddit_posts.py:203-214)
Eligible == {p \in needs_annotation : p \notin Ids(annotated)}

\* ascending enumeration of a set of post ids
RECURSIVE SetToSeq(_)
SetToSeq(S) ==
    IF S = {} THEN <<>>
    ELSE LET m == CHOOSE x \in S : \A y \in S : x <= y
         IN <<m>> \o SetToSeq(S \ {m})

\* what the query can return: all eligible rows, or any `lim` of them
Fetches(lim) ==
    {S \in SUBSET Eligible :
        Cardinality(S) = (IF lim = 0 THEN Cardinality(Eligible)
                          ELSE Min(lim, Cardinality(Eligible)))}

\* self.model_version (annotate_reddit_posts.py:176)
ModelVersion == "1.0.0"

\* PROMPT_TEMPLATE (annotate_reddit_posts.py:38-159)
PromptTemplate == "PROMPT_TEMPLATE"

\* hashlib.sha256(text.encode()).hexdigest()[:16]: a value fixed by the text
Sha256Hex16(text) == <<"sha256", 16, text>>

\* get_prompt_hash (annotate_reddit_posts.py:162-164)
GetPromptHash == Sha256Hex16(PromptTemplate)

\* a key of a JSON object: missing, or present with a value
Missing == <<>>

Key(v) == <<v>>

\* a reply without a post_id key
NoPostId == 0

\* the ENUMS of the prompt (annotate_reddit_posts.py:112-117)
Sentiments == {"negative", "neutral", "positive"}

Urgencies == 0..3

\* the content of a chat completion: whether json.loads accepts it, and the
\* keys of the object the collaborators read
Reply(parses, id, urgency, sentiment, name, version, hash) ==
    [parses |-> parses, post_id |-> id, urgency_0_3 |-> urgency,
     sentiment |-> sentiment, model_name |-> name, model_version |-> version,
     prompt_hash |-> hash]

\* a transport error, an empty choice list, text that is not JSON
NoReply == Reply(FALSE, NoPostId, Missing, Missing, Missing, Missing, Missing)

\* a reply that keeps to the schema and leaves the provenance keys out
ValidReply(id) == Reply(TRUE, id, Key(1), Key("neutral"), Missing, Missing, Missing)

Failed == [post_id |-> 0, src |-> 0]

\* an annotate_post that returns the parsed object as the model wrote it
AnnotatePost_AsReplied(src, reply) ==
    IF ~reply.parses THEN Failed
    ELSE [post_id |-> reply.post_id, src |-> src,
          urgency_0_3 |-> reply.urgency_0_3, sentiment |-> reply.sentiment,
          model_name |-> reply.model_name,
          model_version |-> reply.model_version,
          prompt_hash |-> reply.prompt_hash]

\* annotate_post (annotate_reddit_posts.py:230-281): None on any exception,
\* else the parsed JSON object with model_name, model_version and
\* prompt_hash of the run written over it; every other key, post_id
\* included, is the one the model wrote. src names the post the call was
\* made for (no column of the table).
AnnotatePost(src, reply) ==
    IF ~reply.parses THEN Failed
    ELSE [post_id |-> reply.post_id, src |-> src,
          urgency_0_3 |-> reply.urgency_0_3, sentiment |-> reply.sentiment,
          model_name |-> Key(model_name),
          model_version |-> Key(ModelVersion),
          prompt_hash |-> Key(GetPromptHash)]

\* the record of a reply that keeps to the schema
Annotation(src, id) == AnnotatePost(src, ValidReply(id))

\* the post_id of another staged post
OtherId(src) == (src % NumPosts) + 1

\* every way the keys of a reply can be filled
FieldReplies(src) ==
    {Reply(TRUE, id, u, s, n, v, h) :
        id \in {src, OtherId(src), NoPostId},
        u \in {Key(-1), Key(0), Key(3), Key(4), Missing},
        s \in {Key("neutral"), Key("furious"), Missing},
        n \in {Missing, Key("gpt-4o-mini"), Key("gpt-9")},
        v \in {Missing, Key("9.9.9")},
        h \in {Missing, Key(GetPromptHash), Key(Sha256Hex16("another prompt"))}}

\* what the model can reply to one call: nothing usable, an object that
\* echoes the post_id of the prompt, an object that carries another post_id
Replies(src) ==
    {NoReply} \cup (IF reply_fields THEN FieldReplies(src)
                    ELSE {ValidReply(src), ValidReply(OtherId(src))})

\* what one call of annotate_post can give
Responses(src) == {AnnotatePost(src, r) : r \in Replies(src)}

\* write_pandas appends the rows of the batch to the table (no upsert); the
\* table is unordered and is held here ordered by (src, post_id)
RowLeq(a, b) == a.src < b.src \/ (a.src = b.src /\ a.post_id <= b.post_id)

RECURSIVE InsertRow(_, _)
InsertRow(rows, r) ==
    IF rows = <<>> THEN <<r>>
    ELSE IF RowLeq(Head(rows), r) THEN <<Head(rows)>> \o InsertRow(Tail(rows), r)
    ELSE <<r>> \o rows

RECURSIVE WritePandas(_, _)
WritePandas(rows, batch) ==
    IF batch = <<>> THEN rows
    ELSE WritePandas(InsertRow(rows, Head(batch)), Tail(batch))

\* a loop that appends whatever annotate_post returned
Accumulate_Always(buf, annotation) == Append(buf, annotation)

\* `if annotation: annotations.append(annotation)` (annotate_reddit_posts.py:439-440)
Accumulate(buf, annotation) ==
    IF annotation # Failed THEN Append(buf, annotation) ELSE buf

\* a test that flushes one record late
BatchFull_Late(buf) == Len(buf) > batch_size

\* `if len(annotations) >= args.batch_size` (annotate_reddit_posts.py:443)
BatchFull(buf) == Len(buf) >= batch_size

\* a flush that leaves the list as it is
AfterFlush_Keeps(buf) == buf

\* `annotations = []` after save_annotations (annotate_reddit_posts.py:445)
AfterFlush(buf) == <<>>

\* a close that is reached only at the normal end of main()
ConnAfter_OnSuccess(next_pc) == IF next_pc = "done" THEN "closed" ELSE "open"

\* `finally: annotator.close()` runs whenever main() leaves its try block
\* (annotate_reddit_posts.py:413, 470-471)
ConnAfter(next_pc) == IF next_pc \in {"done", "aborted"} THEN "closed" ELSE "open"

\* LLMAnnotator() (connect_snowflake raises on failure, outside the try
\* block), create_annotation_table(), fetch_posts_to_annotate(), the
\* --dry-run return, `if len(posts_df) == 0: return`
\* (annotate_reddit_posts.py:410-430)
AnnStart ==
    /\ ann_pc = "idle"
    /\ run < MaxRuns
    /\ run' = run + 1
    /\ \E lim \in 0..NumPosts, bs \in 0..MaxBatch, dry, csv \in BOOLEAN,
          connOk, createOk, fetchOk \in BOOLEAN :
         /\ limit' = lim /\ batch_size' = bs /\ dry_run' = dry /\ save_csv' = csv
         /\ IF ~connOk
            THEN /\ ann_pc' = "aborted" /\ ann_conn' = "failed"
                 /\ posts_df' = <<>> /\ UNCHANGED ann_table_exists
            ELSE IF ~createOk
            THEN /\ ann_pc' = "aborted" /\ ann_conn' = "closed"
                 /\ posts_df' = <<>> /\ UNCHANGED ann_table_exists
            ELSE /\ ann_table_exists' = TRUE
                 /\ IF ~fetchOk
                    THEN ann_pc' = "aborted" /\ posts_df' = <<>>
                    ELSE \E S \in Fetches(lim) :
                           /\ posts_df' = SetToSeq(S)
                           /\ ann_pc' = IF dry \/ S = {} THEN "done" ELSE "loop"
                 /\ ann_conn' = ConnAfter(ann_pc')
    /\ idx' = 1
    /\ annotations' = <<>>
    /\ calls' = [p \in PostIds |-> 0]
    /\ outcomes' = <<>>
    /\ flushes' = <<>>
    /\ csv_files' = <<>> /\ replies' = <<>>
    /\ UNCHANGED <<needs_annotation, annotated, flushed_before, prior_selected,
                   model_name, reply_fields>>
    /\ UNCHANGED <<collectVars, mainVars, chkVars>>

\* one iteration of `for idx, row in posts_df.iterrows()`
\* (annotate_reddit_posts.py:431-445); save_annotations may raise, which
\* ends the run
AnnIterate ==
    /\ ann_pc = "loop"
    /\ LET post_id == posts_df[idx] IN
       \E reply \in Replies(post_id), flushOk \in BOOLEAN :
         LET annotation == AnnotatePost(post_id, reply)
             buf == Accumulate(annotations, annotation)
         IN /\ calls' = [calls EXCEPT ![post_id] = @ + 1]
            /\ replies' = Append(replies, reply)
            /\ outcomes' = Append(outcomes, annotation # Failed)
            /\ IF BatchFull(buf) /\ buf # <<>>
               THEN IF flushOk
                    THEN /\ annotated' = WritePandas(annotated, buf)
                         /\ flushes' = Append(flushes, buf)
                         /\ annotations' = AfterFlush(buf)
                         /\ idx' = idx + 1
                         /\ ann_pc' = IF idx = Len(posts_df) THEN "final" ELSE "loop"
                    ELSE /\ ann_pc' = "aborted"
                         /\ annotations' = buf
                         /\ UNCHANGED <<annotated, flushes, idx>>
               ELSE /\ annotations' = IF BatchFull(buf) THEN AfterFlush(buf) ELSE buf
                    /\ idx' = idx + 1
                    /\ ann_pc' = IF idx = Len(posts_df) THEN "final" ELSE "loop"
                    /\ UNCHANGED <<annotated, flushes>>
    /\ ann_conn' = ConnAfter(ann_pc')
    /\ UNCHANGED <<run, needs_annotation, limit, batch_size, posts_df,
                   flushed_before, prior_selected, dry_run, save_csv,
                   ann_table_exists, csv_files, model_name, reply_fields>>
    /\ UNCHANGED <<collectVars, mainVars, chkVars>>

\* `if annotations:` after the loop: save_annotations, then under --save-csv
\* the CSV file of the same list (annotate_reddit_posts.py:447-460)
AnnFinalFlush ==
    /\ ann_pc = "final"
    /\ IF annotations = <<>>
       THEN ann_pc' = "done" /\ UNCHANGED <<annotated, flushes, annotations, csv_files>>
       ELSE \E flushOk, csvOk \in BOOLEAN :
              IF flushOk
              THEN /\ annotated' = WritePandas(annotated, annotations)
                   /\ flushes' = Append(flushes, annotations)
                   /\ UNCHANGED annotations
                   /\ IF ~save_csv
                      THEN ann_pc' = "done" /\ UNCHANGED csv_files
                      ELSE IF csvOk
                      THEN ann_pc' = "done" /\ csv_files' = Append(csv_files, annotations)
                      ELSE ann_pc' = "aborted" /\ UNCHANGED csv_files
              ELSE /\ ann_pc' = "aborted"
                   /\ UNCHANGED <<annotated, flushes, annotations, csv_files>>
    /\ ann_conn' = ConnAfter(ann_pc')
    /\ UNCHANGED <<run, needs_annotation, limit, batch_size, posts_df, idx, calls,
                   outcomes, flushed_before, prior_selected, dry_run, save_csv,
                   ann_table_exists, model_name, reply_fields, replies>>
    /\ UNCHANGED <<collectVars, mainVars, chkVars>>

\* the process is killed: the in-memory list is lost, the table keeps what
\* was flushed
AnnKill ==
    /\ ann_pc \in {"loop", "final"}
    /\ ann_pc' = "killed"
    /\ UNCHANGED <<run, needs_annotation, annotated, limit, batch_size, posts_df,
                   idx, annotations, calls, outcomes, flushes, flushed_before,
                   prior_selected, dry_run, save_csv, ann_table_exists, csv_files,
                   ann_conn, model_name, reply_fields, replies>>
    /\ UNCHANGED <<collectVars, mainVars, chkVars>>

\* the process is gone (after `finally: annotator.close()`, or killed): its
\* memory is lost, the warehouse stays
AnnExit ==
    /\ ann_pc \in {"done", "killed", "aborted"}
    /\ ann_pc' = "idle"
    /\ flushed_before' = Srcs(annotated)
    /\ prior_selected' = SeqSet(posts_df)
    /\ limit' = 0 /\ batch_size' = 1 /\ posts_df' = <<>> /\ idx' = 1
    /\ annotations' = <<>> /\ calls' = [p \in PostIds |-> 0]
    /\ outcomes' = <<>> /\ flushes' = <<>>
    /\ dry_run' = FALSE /\ save_csv' = FALSE /\ csv_files' = <<>>
    /\ ann_conn' = "none" /\ replies' = <<>>
    /\ UNCHANGED <<run, needs_annotation, annotated, ann_table_exists,
                   model_name, reply_fields>>
    /\ UNCHANGED <<collectVars, mainVars, chkVars>>

(* ------------------------- record extractors --------------------------- *)
\* a key of the PullPush JSON object that is not there
Absent == "<absent>"

Truthy(str) == str # Absent /\ str # ""

\* content = post.get('selftext', '') or post.get('url', '')
\* (pullpush_scraper.py:168)
PPContent(post) ==
    IF Truthy(post.selftext) THEN post.selftext
    ELSE IF post.url # Absent THEN post.url ELSE ""

\* content = submission.selftext if submission.selftext else submission.url
\* (reddit_scraper.py:164-165)
RSContent(submission) ==
    IF Truthy(submission.selftext) THEN submission.selftext ELSE submission.url

\* 'content': submission.selftext if hasattr(submission, 'selftext') else ''
\* (praw_scraper.py:113)
TPContent(submission) ==
    IF submission.selftext # Absent THEN submission.selftext ELSE ""

Content(st, item) ==
    IF st = "pullpush" THEN PPContent(item)
    ELSE IF st = "reddit" THEN RSContent(item) ELSE TPContent(item)

\* the handlers of the two PRAW extractors read submission.id for their
\* message (reddit_scraper.py:190-193, praw_scraper.py:119-121)
ExtractorRaises(st, item) == st # "pullpush" /\ ~item.has_id

\* one call of _extract_post_data on one raw item
ExtractItem ==
    /\ pc = "extract"
    /\ LET item == source[1] IN
         /\ escaped' = ExtractorRaises(strategy, item)
         /\ result' = IF item.has_id
                      THEN <<[post_id |-> item.id,
                              post_date |-> FromTimestamp(item.created_utc),
                              post_timestamp |-> item.created_utc,
                              content |-> Content(strategy, item)]>>
                      ELSE <<>>
    /\ pc' = "done"
    /\ UNCHANGED <<strategy, source, apiInclusive, apiHonorsSize, hot, new, top,
                   flair_filter, max_posts, posts_data, post_count, after, pass,
                   seen_post_ids, requests, req_failed, failed_listings,
                   request_log>>
    /\ UNCHANGED <<mainVars, chkVars, annVars>>

\* body texts and external URLs of a raw item; a PRAW submission always has
\* both attributes, a PullPush JSON object may lack either key
Bodies(st) == {"", "hello", "https://x/y"} \cup (IF st = "pullpush" THEN {Absent} ELSE {})

Urls(st) == {"", "https://x/y", "https://i/z"} \cup (IF st = "pullpush" THEN {Absent} ELSE {})

(* --------------------------- specifications ---------------------------- *)
RunLocalsInit ==
    /\ contents = <<>> /\ sink_log = <<>> /\ job_run = 1 /\ probe_error = "none"
    /\ prev_result = <<>> /\ prev_inserted = 0

MainOff ==
    /\ check_duplicates = FALSE /\ save_to_snowflake = FALSE
    /\ output_csv = FALSE /\ output_json = FALSE
    /\ files = {} /\ sf_table_exists = FALSE /\ sf_rows = <<>>
    /\ csv_exists = FALSE /\ snowflake_exists = FALSE
    /\ answer = <<>> /\ written = {} /\ inserted = 0
    /\ RunLocalsInit /\ sf_rows0 = <<>>

ChkOff ==
    /\ check_csv = FALSE /\ check_snowflake = FALSE
    /\ chk_pc = "off" /\ printed = "" /\ exit_status = -1

AnnLocalsInit ==
    /\ run = 0 /\ annotated = <<>>
    /\ limit = 0 /\ batch_size = 1 /\ posts_df = <<>> /\ idx = 1
    /\ annotations = <<>> /\ calls = [p \in PostIds |-> 0]
    /\ outcomes = <<>> /\ flushes = <<>>
    /\ flushed_before = {} /\ prior_selected = {}
    /\ dry_run = FALSE /\ save_csv = FALSE /\ csv_files = <<>>
    /\ ann_conn = "none" /\ replies = <<>>

\* os.getenv("OPENAI_MODEL", "gpt-4o-mini") (annotate_reddit_posts.py:175)
ModelNames == {"gpt-4o-mini", "gpt-4o"}

AnnOff ==
    /\ ann_pc = "off" /\ needs_annotation = {} /\ ann_table_exists = FALSE
    /\ model_name = "gpt-4o-mini" /\ reply_fields = FALSE
    /\ AnnLocalsInit

\* the three collection functions on their own
InitCollect ==
    /\ SourceChoice(MaxSrc, 1..NumIds, MaxListing, 0..MaxCap, BOOLEAN, TRUE)
    /\ LocalsInit
    /\ pc = CollectorStart(strategy)
    /\ main_pc = "get_posts" /\ MainOff
    /\ ChkOff /\ AnnOff

NextCollect ==
    \/ PPPage \/ PPPageFail \/ PPReturn
    \/ RSHot \/ RSNew \/ RSReturn
    \/ TPGetTopPosts

SpecCollect == InitCollect /\ [][NextCollect]_vars

\* get_posts_for_date of the PullPush collector on its own
InitPullPush == InitCollect /\ strategy = "pullpush"

NextPullPush == PPPage \/ PPPageFail \/ PPReturn

SpecPullPush == InitPullPush /\ [][NextPullPush]_vars

\* one run of a collector CLI
InitMain ==
    /\ SourceChoice(CliMaxSrc, {1}, 1, {0}, {FALSE}, FALSE)
    /\ LocalsInit
    /\ pc = "idle"
    /\ main_pc = "start"
    /\ check_duplicates \in BOOLEAN
    /\ save_to_snowflake \in BOOLEAN
    /\ output_csv \in BOOLEAN /\ output_json \in BOOLEAN
    /\ files \in SUBSET {File(Prefix(strategy), Unit, Window, "csv"),
                         File(Prefix(strategy), Unit, Window, "json")}
    /\ \E w \in (IF save_to_snowflake THEN WarehouseStates
                 ELSE {[exists |-> FALSE, rows |-> <<>>]}) :
         sf_table_exists = w.exists /\ sf_rows = w.rows
    /\ csv_exists = FALSE /\ snowflake_exists = FALSE
    /\ answer = <<>> /\ written = {} /\ inserted = 0
    /\ RunLocalsInit /\ sf_rows0 = sf_rows
    /\ ChkOff /\ AnnOff

NextMain == MainBegin \/ MainPrompt \/ NextCollect \/ MainSave

SpecMain == InitMain /\ [][NextMain]_vars

\* a job that saves to the warehouse, run again and again with the same
\* arguments against the same output directory and warehouse
InitRerun ==
    /\ SourceChoice(CliMaxSrc, {1}, 1, {0}, {FALSE}, FALSE)
    /\ LocalsInit
    /\ pc = "idle"
    /\ main_pc = "start"
    /\ check_duplicates \in BOOLEAN
    /\ save_to_snowflake = TRUE
    /\ output_csv \in BOOLEAN /\ output_json = FALSE
    /\ files = {}
    /\ \E w \in WarehouseStates : sf_table_exists = w.exists /\ sf_rows = w.rows
    /\ csv_exists = FALSE /\ snowflake_exists = FALSE
    /\ answer = <<>> /\ written = {} /\ inserted = 0
    /\ RunLocalsInit /\ sf_rows0 = sf_rows
    /\ ChkOff /\ AnnOff

NextRerun == NextMain \/ MainAgain

SpecRerun == InitRerun /\ [][NextRerun]_vars

\* one run of the duplication-check CLI
InitChk ==
    /\ strategy = "reddit"
    /\ source = <<>> /\ apiInclusive = FALSE /\ apiHonorsSize = TRUE
    /\ hot = <<>> /\ new = <<>> /\ top = <<>> /\ flair_filter = FALSE
    /\ max_posts = 0
    /\ LocalsInit
    /\ pc = "idle"
    /\ main_pc = "off"
    /\ check_duplicates = FALSE /\ save_to_snowflake = FALSE
    /\ output_csv = FALSE /\ output_json = FALSE
    /\ files \in SUBSET {File("reddit_posts", Unit, Window, "csv"),
                         File("reddit_posts", Unit, Window, "json"),
                         File("reddit_posts", Unit, OtherWindow, "csv"),
                         File("pullpush_posts", Unit, Window, "csv")}
    /\ \E w \in WarehouseStates : sf_table_exists = w.exists /\ sf_rows = w.rows
    /\ csv_exists = FALSE /\ snowflake_exists = FALSE
    /\ answer = <<>> /\ written = {} /\ inserted = 0
    /\ RunLocalsInit /\ sf_rows0 = sf_rows
    /\ check_csv \in BOOLEAN /\ check_snowflake \in BOOLEAN
    /\ chk_pc = "csv" /\ printed = "" /\ exit_status = -1
    /\ AnnOff

NextChk == ChkCsv \/ ChkSnowflake \/ ChkReport

SpecChk == InitChk /\ [][NextChk]_vars

\* annotation runs executed one after the other against one warehouse
InitAnn ==
    /\ strategy = "reddit"
    /\ source = <<>> /\ apiInclusive = FALSE /\ apiHonorsSize = TRUE
    /\ hot = <<>> /\ new = <<>> /\ top = <<>> /\ flair_filter = FALSE
    /\ max_posts = 0
    /\ LocalsInit
    /\ pc = "idle"
    /\ main_pc = "off" /\ MainOff
    /\ ChkOff
    /\ ann_pc = "idle"
    /\ needs_annotation \in {PostIds, PostIds \ {1}}
    /\ ann_table_exists \in BOOLEAN
    /\ model_name = "gpt-4o-mini" /\ reply_fields = FALSE
    /\ AnnLocalsInit

NextAnn == AnnStart \/ AnnIterate \/ AnnFinalFlush \/ AnnKill \/ AnnExit

SpecAnn == InitAnn /\ [][NextAnn]_vars

\* the batches an earlier run can have flushed: none, the record of post 2,
\* or the records of posts 2 and 3, each under the post_id its reply held
PriorBatches ==
    {<<>>}
    \cup {<<Annotation(2, p)>> : p \in {2, OtherId(2)}}
    \cup {<<Annotation(2, p), Annotation(3, q)>> :
             p \in {2, OtherId(2)}, q \in {3, OtherId(3)}}

\* what earlier runs can have left in the annotation table
PriorTables == {WritePandas(<<>>, b) : b \in PriorBatches}

\* one annotation run, from its start to the end of the process, against a
\* warehouse that earlier runs may have written to
InitOneRun ==
    /\ strategy = "reddit"
    /\ source = <<>> /\ apiInclusive = FALSE /\ apiHonorsSize = TRUE
    /\ hot = <<>> /\ new = <<>> /\ top = <<>> /\ flair_filter = FALSE
    /\ max_posts = 0
    /\ LocalsInit
    /\ pc = "idle"
    /\ main_pc = "off" /\ MainOff
    /\ ChkOff
    /\ ann_pc = "idle"
    /\ needs_annotation \in {PostIds, PostIds \ {1}}
    /\ ann_table_exists \in BOOLEAN
    /\ model_name = "gpt-4o-mini" /\ reply_fields = FALSE
    /\ run = 0
    /\ annotated \in (IF ann_table_exists THEN PriorTables ELSE {<<>>})
    /\ flushed_before = Srcs(annotated) /\ prior_selected = Srcs(annotated)
    /\ limit = 0 /\ batch_size = 1 /\ posts_df = <<>> /\ idx = 1
    /\ annotations = <<>> /\ calls = [p \in PostIds |-> 0]
    /\ outcomes = <<>> /\ flushes = <<>>
    /\ dry_run = FALSE /\ save_csv = FALSE /\ csv_files = <<>>
    /\ ann_conn = "none" /\ replies = <<>>

NextOneRun == AnnStart \/ AnnIterate \/ AnnFinalFlush \/ AnnKill

SpecOneRun == InitOneRun /\ [][NextOneRun]_vars

\* one annotation run over one staged post, with every reply the model can
\* give to the call
InitAnnotate ==
    /\ strategy = "reddit"
    /\ source = <<>> /\ apiInclusive = FALSE /\ apiHonorsSize = TRUE
    /\ hot = <<>> /\ new = <<>> /\ top = <<>> /\ flair_filter = FALSE
    /\ max_posts = 0
    /\ LocalsInit
    /\ pc = "idle"
    /\ main_pc = "off" /\ MainOff
    /\ ChkOff
    /\ ann_pc = "idle"
    /\ needs_annotation = {1}
    /\ ann_table_exists \in BOOLEAN
    /\ model_name \in ModelNames /\ reply_fields = TRUE
    /\ AnnLocalsInit

NextAnnotate == AnnStart \/ AnnIterate \/ AnnFinalFlush

SpecAnnotate == InitAnnotate /\ [][NextAnnotate]_vars

\* the duplication guard of both CLIs: a collector run with
\* --check-duplicates and --save-to-snowflake, or a run of the
\* duplication-check CLI
InitProbe ==
    \/ /\ InitMain
       /\ check_duplicates /\ save_to_snowflake
       /\ ~output_csv /\ ~output_json
    \/ InitChk

NextProbe == NextMain \/ NextChk

SpecProbe == InitProbe /\ [][NextProbe]_vars

\* one extractor call on one raw item
InitExtract ==
    /\ strategy \in {"pullpush", "reddit", "top"}
    /\ \E body \in Bodies(strategy), url \in Urls(strategy), ok \in BOOLEAN :
         source = <<[id |-> 1, created_utc |-> StartTs, has_id |-> ok,
                     selftext |-> body, url |-> url]>>
    /\ apiInclusive = FALSE /\ apiHonorsSize = TRUE
    /\ hot = <<>> /\ new = <<>> /\ top = <<>> /\ flair_filter = FALSE
    /\ max_posts = 0
    /\ LocalsInit
    /\ pc = "extract"
    /\ main_pc = "off" /\ MainOff
    /\ ChkOff /\ AnnOff

NextExtract == ExtractItem

SpecExtract == InitExtract /\ [][NextExtract]_vars

(* ------------------------------ C1 ------------------------------------- *)
\* every PullPush submission lies inside the window [start, end)
AllInWindow ==
    \A i \in 1..Len(source) :
        StartTs <= source[i].created_utc /\ source[i].created_utc < EndTs

SourceIds == {source[i].id : i \in 1..Len(source)}

\* C1: cursor-forward collection without max_posts and without a request
\* failure, over a source whose posts all lie in the window, returns exactly
\* the source's posts: every id present, none twice.
C1_ExactGroundTruth ==
    (/\ strategy = "pullpush" /\ pc = "done"
     /\ max_posts = 0 /\ ~req_failed /\ requests < MaxRequests
     /\ AllInWindow /\ \A i \in 1..Len(source) : source[i].has_id)
    => (Ids(result) = SourceIds /\ NoDupIds(result))

(* ------------------------------ C2 ------------------------------------- *)
\* C2: the batch returned by the hot/new merge never holds two records with
\* the same post_id.
C2_UniquePostIds ==
    (strategy = "reddit" /\ pc = "done") => NoDupIds(result)

(* ------------------------------ C9 ------------------------------------- *)
\* C9 as stated: the list returned by each of the three collectors is sorted
\* ascending by creation time.
C9_AllSorted ==
    (pc = "done") => SortedByDate(result)

\* C9 (amended): the lists returned by PullPushScraper.get_posts_for_date and
\* RedditScraper.get_posts_for_date are sorted ascending by post_date,
\* whatever order the source delivered the items in.
C9_DateCollectorsSorted ==
    (strategy \in {"pullpush", "reddit"} /\ pc = "done") => SortedByDate(result)

\* the source delivered two in-window posts newest first and they were returned
C9_Witness ==
    /\ strategy = "reddit" /\ pc = "done"
    /\ Len(result) >= 2
    /\ ~SortedByDate(posts_data)

(* ------------------------------ C10 ------------------------------------ *)
\* C10: with a positive max_posts the accumulated list, the counter and the
\* returned list never hold more than max_posts records, in every collector.
\* (Inside one page or listing walk the list only grows, so the bound after
\* the walk bounds every point of it.)
C10_CapRespected ==
    (max_posts # 0) =>
        /\ Len(posts_data) <= max_posts
        /\ post_count <= max_posts
        /\ Len(result) <= max_posts

\* the source returned a page larger than the remaining room and the cap cut it
C10_Witness ==
    /\ strategy = "pullpush" /\ pc = "done"
    /\ max_posts # 0 /\ ~apiHonorsSize
    /\ Len(result) = max_posts
    /\ Len(Matching(source, StartTs, EndTs)) > max_posts

(* ------------------------------ C3 ------------------------------------- *)
RunStarted == ann_pc \in {"loop", "final", "done", "killed", "aborted"}

\* C3: over sequentially executed annotation runs (completed, killed or
\* aborted) the annotation table never holds two rows with the same post_id,
\* and a post whose annotation was flushed by an earlier run is neither
\* fetched nor passed to the Annotator by a later run.
C3_AtMostOneRow ==
    /\ NoDupIds(annotated)
    /\ RunStarted =>
         \A p \in flushed_before : p \notin SeqSet(posts_df) /\ calls[p] = 0

(* ------------------------------ C4 ------------------------------------- *)
AllSucceeded ==
    /\ Len(outcomes) = Len(posts_df)
    /\ \A i \in 1..Len(outcomes) : outcomes[i]

\* C4: a first run fetched the M flagged posts, flushed N of them and
\* stopped, so the table holds N rows; a second run without a limit in which
\* every Annotator call succeeds calls the Annotator once for each of the
\* M - N unflushed posts, for none of the N flushed posts, and leaves M rows.
C4_Resume ==
    /\ (run = 1 /\ ann_pc = "idle") => Len(annotated) = Cardinality(flushed_before)
    /\ (/\ run = 2 /\ ann_pc = "done"
        /\ prior_selected = needs_annotation
        /\ limit = 0
        /\ AllSucceeded)
       => /\ \A p \in prior_selected \ flushed_before : calls[p] = 1
          /\ \A p \in flushed_before : calls[p] = 0
          /\ Len(annotated) = Cardinality(prior_selected)

(* ------------------------------ C5 ------------------------------------- *)
RECURSIVE Flatten(_)
Flatten(batches) ==
    IF batches = <<>> THEN <<>> ELSE Head(batches) \o Flatten(Tail(batches))

SrcSeq(recs) == [i \in 1..Len(recs) |-> recs[i].src]

\* the fetched posts whose Annotator call succeeded, in processing order
RECURSIVE Successes(_, _)
Successes(posts, outs) ==
    IF outs = <<>> THEN <<>>
    ELSE (IF Head(outs) THEN <<Head(posts)>> ELSE <<>>) \o Successes(Tail(posts), Tail(outs))

\* C5: in a run in which no flush has failed, with batch_size >= 1: every
\* flush made inside the loop carries exactly batch_size records and is made
\* as soon as batch_size have accumulated, the flush after the loop carries
\* the non-empty remainder, and the successful annotations are exactly the
\* flushed records followed by the records still held in memory.
C5_BatchedFlush ==
    (batch_size >= 1 /\ ann_pc \in {"loop", "final", "done"}) =>
        /\ \A i \in 1..Len(flushes) :
             /\ Len(flushes[i]) >= 1 /\ Len(flushes[i]) <= batch_size
             /\ (i < Len(flushes) \/ ann_pc # "done") => Len(flushes[i]) = batch_size
        /\ ann_pc \in {"loop", "final"} => Len(annotations) < batch_size
        /\ SrcSeq(Flatten(flushes) \o (IF ann_pc = "done" THEN <<>> ELSE annotations))
             = Successes(posts_df, outcomes)

\* a completed run made one full flush and one flush of a remainder
C5_Witness ==
    /\ ann_pc = "done" /\ batch_size = 2
    /\ Len(flushes) = 2
    /\ Len(flushes[1]) = 2 /\ Len(flushes[2]) = 1

(* ------------------------------ C6 ------------------------------------- *)
\* C6: a failed Annotator call leaves no record, is not repeated, and does
\* not end the run: every row processed so far had exactly one call, a run
\* that aborts inside the loop does so in an iteration whose call succeeded
\* (the flush failed), and in a completed annotating run every fetched post
\* had one call, every success is in exactly one flush and no failure is in
\* any.
C6_FailureIsolated ==
    RunStarted =>
        /\ \A p \in PostIds : calls[p] <= 1
        /\ \A i \in 1..Len(outcomes) : calls[posts_df[i]] = 1
        /\ (ann_pc = "aborted" /\ posts_df # <<>> /\ idx <= Len(posts_df))
             => outcomes[Len(outcomes)]
        /\ \A i \in 1..Len(flushes) : \A j \in 1..Len(flushes[i]) :
             flushes[i][j] # Failed
        /\ (ann_pc = "done" /\ ~dry_run) =>
             /\ Len(outcomes) = Len(posts_df)
             /\ \A i \in 1..Len(posts_df) :
                  Cardinality({k \in 1..Len(Flatten(flushes)) :
                                 Flatten(flushes)[k].src = posts_df[i]})
                    = (IF outcomes[i] THEN 1 ELSE 0)

\* a completed run whose first call failed and whose second call succeeded
C6_Witness ==
    /\ ann_pc = "done" /\ Len(outcomes) >= 2
    /\ ~outcomes[1] /\ outcomes[2]
    /\ posts_df[2] \in Srcs(Flatten(flushes))

(* ------------------------------ C7 ------------------------------------- *)
Answered == main_pc \notin {"start", "prompt"} /\ (csv_exists \/ snowflake_exists)

NothingDone == requests = 0 /\ pc = "idle" /\ written = {} /\ inserted = 0

\* C7 as stated: with check-duplicates and a positive probe, any answer other
\* than 'y' or 'yes' ends the run without a source request, an output file or
\* a warehouse row.
C7_GateLiteral ==
    (check_duplicates /\ Answered /\ answer \notin Yes) => NothingDone

\* C7 (amended): with check-duplicates and a positive probe, any answer that
\* after stripping surrounding whitespace and lower-casing is other than 'y'
\* or 'yes' (empty input included) ends the run without a source request, an
\* output file or a warehouse row.
C7_GateNormalised ==
    (check_duplicates /\ Answered /\ Lower(Strip(answer)) \notin Yes)
        => (main_pc = "cancelled" /\ NothingDone)

\* the warehouse probe alone was positive and the user pressed return
C7_Witness ==
    /\ main_pc = "cancelled" /\ answer = <<>>
    /\ snowflake_exists /\ ~csv_exists

(* ------------------------------ C8 ------------------------------------- *)
\* C8: the duplication-check CLI prints EXISTS and exits 0 exactly when an
\* enabled probe reported a match (the file probe under --check-csv, the
\* warehouse probe under --check-snowflake); otherwise, also with no probe
\* enabled, it prints NOT_EXISTS and exits 1.
C8_ExitCode ==
    (chk_pc = "exited") =>
        LET match == \/ check_csv /\ CheckExistingCsv("reddit", files)
                     \/ check_snowflake /\ snowflake_exists
        IN /\ snowflake_exists => check_snowflake
           /\ match => (printed = "EXISTS" /\ exit_status = 0)
           /\ ~match => (printed = "NOT_EXISTS" /\ exit_status = 1)

\* a matching file is present but the file probe was not enabled
C8_Witness ==
    /\ chk_pc = "exited" /\ ~check_csv /\ check_snowflake
    /\ CheckExistingCsv("reddit", files)
    /\ printed = "NOT_EXISTS" /\ exit_status = 1

(* ------------------------------ C11 ------------------------------------ *)
\* the raw items the run has to deal with
RawItems == IF strategy = "pullpush" THEN SeqSet(source)
            ELSE SeqSet(hot) \cup SeqSet(new)

\* a batch of raw in-window items that the source delivers whole: for the
\* cursor-forward collector strictly inside the window with pairwise distinct
\* creation times
RawBatchInWindow ==
    IF strategy = "pullpush"
    THEN /\ ~apiInclusive
         /\ \A i \in 1..Len(source) :
              StartTs < source[i].created_utc /\ source[i].created_utc < EndTs
         /\ \A i \in 1..Len(source) - 1 :
              source[i].created_utc < source[i + 1].created_utc
    ELSE \A x \in RawItems : InWindow(x)

\* C11: for a batch of raw in-window items of which exactly one lacks its
\* identifier, in the cursor-forward and in the multi-listing-merge
\* collector, no exception leaves the extractor and the returned batch holds
\* the records of all the other items and nothing for the malformed one.
C11_MalformedIsolated ==
    (/\ strategy \in {"pullpush", "reddit"} /\ pc = "done"
     /\ max_posts = 0 /\ ~req_failed /\ requests < MaxRequests
     /\ RawBatchInWindow
     /\ Cardinality({x \in RawItems : ~x.has_id}) = 1)
    => /\ ~escaped
       /\ Ids(result) = {x.id : x \in {y \in RawItems : y.has_id}}
       /\ strategy = "pullpush" => Len(result) = Len(source) - 1

(* ------------------------------ C12 ------------------------------------ *)
\* C12: every record extractor maps content to the item's body text when the
\* body text is non-empty, whatever the URL, and to the item's external URL
\* when the body text is empty or absent.
C12_ContentMapping ==
    (pc = "done" /\ source[1].has_id /\ source[1].url # Absent) =>
        /\ Len(result) = 1
        /\ result[1].content = (IF Truthy(source[1].selftext) THEN source[1].selftext
                                ELSE source[1].url)

(* ------------------------------ C13 ------------------------------------ *)
\* C13: a --dry-run annotation run issues no Annotator call and writes
\* nothing: the warehouse (the annotation table's existence and its rows) is
\* the same after the run as before it, and no CSV file is written.
C13_DryRunWritesNothing ==
    [][(ann_pc = "idle" /\ ann_pc' # "idle" /\ dry_run') =>
          /\ \A p \in PostIds : calls'[p] = 0
          /\ ann_table_exists' = ann_table_exists
          /\ annotated' = annotated
          /\ csv_files' = <<>>]_vars

(* ------------------------------ C18 ------------------------------------ *)
\* C18: with --save-csv, a completed run that produced at least one
\* annotation has written one CSV file holding every annotation the run
\* produced and flushed, whatever the number of successes and batch_size.
C18_CsvHoldsAll ==
    (/\ ann_pc = "done" /\ save_csv /\ ~dry_run /\ batch_size >= 1
     /\ \E i \in 1..Len(outcomes) : outcomes[i])
    => /\ Len(csv_files) = 1
       /\ csv_files[1] = Flatten(flushes)

(* ------------------------------ C14 ------------------------------------ *)
FailedEvent(sink) == \E i \in 1..Len(sink_log) : sink_log[i] = Event(sink, FALSE)

\* the run asked for exactly one output, a file
SoleFileSink == ~save_to_snowflake /\ Cardinality(CsvTarget \cup JsonTarget) = 1

\* C14: when a file sink is the only requested output and writing the file
\* fails, the failure is raised to the caller of save_to_csv / save_to_json,
\* so main() does not go on to its normal end.
C14_SoleFileSinkReraises ==
    (SoleFileSink /\ (FailedEvent("csv") \/ FailedEvent("json"))) => main_pc # "exit"

(* ------------------------------ C15 ------------------------------------ *)
FileSinks == {"csv", "json"}

\* C15: in a run that requests file outputs and the warehouse, every file
\* sink is written before the warehouse sink is attempted, and when the
\* warehouse sink fails (connection, schema creation or insert) the run still
\* ends normally and every file that was written holds the complete batch.
C15_FilesSurviveWarehouseFailure ==
    (save_to_snowflake /\ CsvTarget \cup JsonTarget # {} /\ sink_log # <<>>) =>
        /\ \A i, j \in 1..Len(sink_log) :
             (sink_log[i].sink \in FileSinks /\ sink_log[j].sink \notin FileSinks) => i < j
        /\ main_pc = "exit"
        /\ (~FailedEvent("csv") => CsvTarget \subseteq written)
        /\ (~FailedEvent("json") => JsonTarget \subseteq written)
        /\ \A f \in written : contents[f] = result
        /\ (FailedEvent("connect") \/ FailedEvent("create") \/ FailedEvent("insert"))
             => inserted = 0

\* both files were written, then the insert failed
C15_Witness ==
    /\ main_pc = "exit" /\ FailedEvent("insert")
    /\ Cardinality(written) = 2
    /\ \A f \in written : contents[f] = result /\ result # <<>>

(* ------------------------------ C16 ------------------------------------ *)
\* C16: a failure to construct the warehouse client is fatal in every CLI:
\* the annotation CLI ends with the exception, and so does a collector run
\* with save-to-warehouse instead of completing normally.
C16_ConnectFailureFatal ==
    /\ ann_conn = "failed" => ann_pc = "aborted"
    /\ FailedEvent("connect") => main_pc # "exit"

(* ------------------------------ C17 ------------------------------------ *)
RECURSIVE CountId(_, _)
CountId(rows, p) ==
    IF rows = <<>> THEN 0
    ELSE (IF Head(rows).post_id = p /\ Head(rows).unit = Unit /\ Head(rows).window = Window
          THEN 1 ELSE 0) + CountId(Tail(rows), p)

CreateBeforeInsert ==
    \A j \in 1..Len(sink_log) :
        sink_log[j].sink = "insert" =>
            \E i \in 1..j - 1 : sink_log[i] = Event("create", TRUE)

\* C17: the warehouse sink creates the table if absent before it inserts and
\* appends one row per record without replacing a row: when the same job has
\* run twice, each time inserting its batch, the table holds two rows more
\* than before the first run for each post_id of the batch.
C17_AppendOnly ==
    /\ CreateBeforeInsert
    /\ (/\ job_run = 2 /\ main_pc = "exit"
        /\ result # <<>> /\ prev_result = result
        /\ inserted = Len(result) /\ prev_inserted = Len(prev_result))
       => \A p \in Ids(result) : CountId(sf_rows, p) = CountId(sf_rows0, p) + 2

(* ------------------------------ C19 ------------------------------------ *)
\* C19: in the multi-listing merge an error raised while walking the hot
\* listing ends only that walk: as long as the new listing itself does not
\* raise, it is walked during the run and its in-window items are returned.
C19_ListingFailureIsolated ==
    (/\ strategy = "reddit" /\ pc = "done"
     /\ max_posts = 0 /\ ~escaped /\ "new" \notin failed_listings)
    => \A x \in SeqSet(new) : InWindow(x) => x.id \in Ids(result)

(* ------------------------------ C20 ------------------------------------ *)
IsPrefix(s, t) == Len(s) <= Len(t) /\ SubSeq(t, 1, Len(s)) = s

BagOf(s) == [r \in SeqSet(s) |-> Cardinality({i \in 1..Len(s) : s[i] = r})]

\* C20: a failed page request of the cursor-forward collector ends
\* pagination without raising: the failing step keeps the records extracted
\* so far, no request is issued after it, and the collector returns exactly
\* the records it holds, sorted.
C20_PageFailureEndsPagination ==
    /\ [][(strategy = "pullpush" /\ req_failed') =>
            /\ IsPrefix(posts_data, posts_data')
            /\ pc' \in {"sort", "done"}
            /\ req_failed => requests' = requests]_vars
    /\ []((strategy = "pullpush" /\ req_failed /\ pc = "done") =>
            (SortedByDate(result) /\ BagOf(result) = BagOf(posts_data)))

\* a full page was collected, the next request failed, the two records of
\* the first page are returned
C20_Witness ==
    /\ strategy = "pullpush" /\ pc = "done" /\ req_failed
    /\ requests = 2 /\ Len(result) = PageSize

(* ------------------------------ C21 ------------------------------------ *)
\* the page the source returns for the request the loop is about to make
PendingPage == ApiPage(RequestAfter, EndTs, RequestSize)

\* the step is an iteration of the loop whose request succeeded
PageStep == strategy = "pullpush" /\ pc = "loop" /\ requests' = requests + 1 /\ ~req_failed'

LastRequest(log) == log[CHOOSE i \in 1..Len(log) :
                          log[i].ev = "get" /\ \A j \in i + 1..Len(log) : log[j].ev # "get"]

\* C21: in the cursor-forward collector a page that holds exactly as many
\* items as were asked for leaves the loop running, and the step that follows
\* is a request whose `after` is the created_utc of that page's last item; a
\* page with fewer items than asked for, or with none, ends pagination and
\* no request is issued after it.
C21_PageContinuation ==
    /\ [][PageStep =>
            /\ (PendingPage # <<>> /\ Len(PendingPage) = RequestSize)
                 => /\ pc' = "loop"
                    /\ RequestAfter' = PendingPage[Len(PendingPage)].created_utc
            /\ (PendingPage = <<>> \/ Len(PendingPage) < RequestSize)
                 => pc' = "sort"]_vars
    /\ [][(strategy = "pullpush" /\ pc = "loop") =>
            /\ requests' = requests + 1
            /\ LastRequest(request_log').after = RequestAfter]_vars
    /\ [][(strategy = "pullpush" /\ pc \in {"sort", "done"}) =>
            (requests' = requests /\ request_log' = request_log)]_vars

\* a full page was followed by a request at its last item's timestamp, whose
\* short page ended the run
C21_Witness ==
    /\ strategy = "pullpush" /\ pc = "done" /\ ~req_failed /\ max_posts = 0
    /\ Len(source) > PageSize
    /\ request_log = <<Request(StartTs, PageSize), Sleep,
                       Request(source[PageSize].created_utc, PageSize)>>
    /\ Len(result) = PageSize + 1

(* ------------------------------ C24 ------------------------------------ *)
\* C24: in the cursor-forward collector no page request after the first is
\* issued without a pacing delay since the request before it: in the run's
\* log every request that is followed by anything is followed by a delay.
C24_PacedRequests ==
    (strategy = "pullpush") =>
        /\ request_log # <<>> => request_log[1].ev = "get"
        /\ \A i \in 1..Len(request_log) - 1 :
             request_log[i].ev = "get" => request_log[i + 1] = Sleep
        /\ Cardinality({i \in 1..Len(request_log) : request_log[i].ev = "get"})
             = requests

\* two requests were made with a delay between them, and the second failed
C24_Witness ==
    /\ strategy = "pullpush" /\ pc = "done" /\ req_failed
    /\ Len(request_log) = 3
    /\ request_log[1].ev = "get" /\ request_log[2] = Sleep
    /\ request_log[3].ev = "get"

(* ------------------------------ C27 ------------------------------------ *)
\* C27: get_posts_for_date of the cursor-forward collector terminates. The
\* request of an iteration is fixed by (after, size) and the source answers
\* the same request with the same page, so the loop runs for ever exactly
\* when an iteration that goes on leaves both as it found them; `after`
\* never decreases and `size` never grows, so a loop in which every
\* continuing iteration changes one of them ends. The property: no
\* continuing iteration leaves (after, size) of the next request unchanged.
C27_Terminates ==
    [][(strategy = "pullpush" /\ pc = "loop" /\ pc' = "loop") =>
          <<RequestAfter, RequestSize>>' # <<RequestAfter, RequestSize>>]_vars

(* ------------------------------ C22 ------------------------------------ *)
\* the annotation schema: the required keys are there and the enumerated
\* ones hold a value of their enumeration
KeepsSchema(obj) ==
    /\ obj.post_id # NoPostId
    /\ obj.urgency_0_3 \in {Key(u) : u \in Urgencies}
    /\ obj.sentiment \in {Key(x) : x \in Sentiments}

\* C22: a reply that parses as JSON but breaks the annotation schema counts
\* as a failed Annotator call, so its record is neither accumulated nor
\* flushed, and every row of the annotation table has urgency_0_3 in 0..3.
C22_SchemaViolationDropped ==
    /\ \A i \in 1..Len(outcomes) :
         (replies[i].parses /\ ~KeepsSchema(replies[i])) => ~outcomes[i]
    /\ \A i \in 1..Len(annotations) : KeepsSchema(annotations[i])
    /\ \A i \in 1..Len(annotated) :
         annotated[i].urgency_0_3 \in {Key(u) : u \in Urgencies}

(* ------------------------------ C23 ------------------------------------ *)
RunProvenance(rec) ==
    /\ rec.prompt_hash = Key(GetPromptHash)
    /\ rec.model_name = Key(model_name)
    /\ rec.model_version = Key(ModelVersion)

\* C23: every record the run accumulates, flushes or leaves in the table
\* carries the hash of the run's prompt template as prompt_hash and the
\* run's configured model_name and model_version, whatever the reply of the
\* model held under those keys.
C23_RunProvenance ==
    /\ \A i \in 1..Len(annotations) : RunProvenance(annotations[i])
    /\ \A i \in 1..Len(flushes) : \A j \in 1..Len(flushes[i]) :
         RunProvenance(flushes[i][j])
    /\ \A i \in 1..Len(annotated) : RunProvenance(annotated[i])

\* a reply that named another model, version and prompt hash was flushed
C23_Witness ==
    /\ ann_pc = "done" /\ Len(annotated) = 1 /\ Len(replies) = 1
    /\ replies[1].model_name = Key("gpt-9")
    /\ replies[1].model_version = Key("9.9.9")
    /\ replies[1].prompt_hash = Key(Sha256Hex16("another prompt"))
    /\ model_name = "gpt-4o"

(* ------------------------------ C25 ------------------------------------ *)
\* C25: every row of the annotation table has the post_id of the fetched
\* post whose Annotator call produced it, whatever post_id the reply of the
\* model carried, so the anti-join of the next fetch leaves out exactly the
\* posts that have been annotated.
C25_RowKeepsPostId ==
    /\ \A i \in 1..Len(annotated) : annotated[i].post_id = annotated[i].src
    /\ Eligible = needs_annotation \ Srcs(annotated)

(* ------------------------------ C26 ------------------------------------ *)
\* the step is a save_annotations call that raised
FlushFails ==
    /\ ann_pc \in {"loop", "final"} /\ ann_pc' = "aborted"
    /\ flushes' = flushes

\* C26: a failing flush aborts the run: the failing step writes no row (the
\* rows of earlier flushes stay, the failing batch gets none), after it no
\* Annotator call is made and the table is not written, the fetched records
\* after the failing one were never passed to the Annotator, and the
\* warehouse connection is closed when the run has ended.
C26_FlushFailureAborts ==
    /\ [][FlushFails =>
            /\ annotated' = annotated
            /\ annotations' # <<>>
            /\ ann_conn' = "closed"]_vars
    /\ [][(ann_pc = "aborted") =>
            /\ annotated' = annotated
            /\ \A p \in PostIds : calls'[p] <= calls[p]]_vars
    /\ []((ann_pc = "aborted" /\ posts_df # <<>>) =>
            /\ \A k \in idx + 1..Len(posts_df) : calls[posts_df[k]] = 0
            /\ \A i \in 1..Len(Flatten(flushes)) :
                 Flatten(flushes)[i] \in SeqSet(annotated))
    /\ [](ann_pc \in {"done", "aborted"} => ann_conn \in {"closed", "failed"})

\* one batch was flushed, the flush of the next batch failed, a fetched
\* record was left unprocessed and the connection is closed
C26_Witness ==
    /\ ann_pc = "aborted" /\ ann_conn = "closed"
    /\ Len(flushes) = 1 /\ annotations # <<>>
    /\ idx < Len(posts_df)
    /\ calls[posts_df[Len(posts_df)]] = 0

(* ------------------------------ C30 ------------------------------------ *)
\* C30: with batch_size >= 1 the list of unflushed annotations never holds
\* more than batch_size records, holds fewer than batch_size at the head of
\* every loop iteration and at the flush after the loop, and so a killed
\* process loses at most batch_size - 1 completed annotations.
C30_BufferBound ==
    (batch_size >= 1 /\ RunStarted) =>
        /\ Len(annotations) <= batch_size
        /\ ann_pc \in {"loop", "final"} => Len(annotations) < batch_size
        /\ ann_pc = "killed" => Len(annotations) <= batch_size - 1

\* the process was killed while it held batch_size - 1 unflushed annotations
\* after a flush
C30_Witness ==
    /\ ann_pc = "killed" /\ batch_size = 2
    /\ Len(flushes) = 1 /\ Len(annotations) = batch_size - 1

(* ------------------------------ C28 ------------------------------------ *)
\* C28: after a collector run that found posts, was given no explicit
\* output path and wrote its files without error, the file probe of the
\* same collector for the same subreddit, date (or time filter) and output
\* directory reports existing data; for each of the three collectors.
C28_WriteThenProbe ==
    (/\ main_pc = "exit" /\ result # <<>>
     /\ ~output_csv /\ ~output_json
     /\ ~FailedEvent("csv") /\ ~FailedEvent("json"))
    => CheckExistingCsv(strategy, files \cup written)

(* ------------------------------ C29 ------------------------------------ *)
\* C29: a warehouse probe that fails (connection error, query error,
\* missing table) reports no existing data and raises nothing: the
\* collector, when its file probe is negative too, goes on to collect
\* without prompting, and the duplication-check CLI in the same situation
\* prints NOT_EXISTS and exits 1.
C29_ProbeFailureIsNoData ==
    /\ (main_pc \notin {"off", "start"} /\ probe_error # "none") =>
         /\ ~snowflake_exists
         /\ ~csv_exists => (main_pc \in {"get_posts", "exit"} /\ answer = <<>>)
    /\ (chk_pc \in {"report", "exited"} /\ probe_error # "none") =>
         /\ ~snowflake_exists
         /\ (chk_pc = "exited" /\ ~csv_exists) =>
              (printed = "NOT_EXISTS" /\ exit_status = 1)

\* the connection of the probe failed, no file matched, and the collector
\* has issued a source request without having prompted
C29_Witness ==
    /\ main_pc = "get_posts" /\ probe_error = "connect"
    /\ ~csv_exists /\ requests >= 1 /\ answer = <<>>
====
